---- MODULE Spec2Model ----
(***************************************************************************)
(* Model of tabpfn_client: the process-wide session configuration          *)
(* (config.py: TabPFNConfig, init, reset) and the two estimator facades    *)
(* (estimator.py: TabPFNClassifier, TabPFNRegressor).                      *)
(*                                                                         *)
(* The program is single-threaded; every operation is one atomic action.   *)
(* The answers of the collaborators (PromptAgent, ServiceClient,           *)
(* UserAuthenticationClient, InferenceClient) are inputs of the actions.   *)
(* Python values are encoded so that every field has one TLA+ type:        *)
(* None/True/False are the strings "None"/"True"/"False", handler objects  *)
(* are positive integers (object identities) and a null handler is 0.      *)
(***************************************************************************)
EXTENDS Integers, Sequences, FiniteSets, TLC

(* ---------------- bounds ---------------- *)

\* number of ServiceClient / handler generations init(use_server=True) may create
MaxClients == 2

\* an inference response carries opaque result values 1..MaxValue
MaxValue == 2

\* a probability matrix has 1..MaxRows rows of NumClasses entries in 0..MaxProb
MaxRows == 2

NumClasses == 2

MaxProb == 1

(* ---------------- encodings of Python values ---------------- *)

None == "None"

NoHandler == 0

\* emails the login prompt can return
Emails == {"a@x.org", "b@x.org"}

\* Python truthiness of a session field (None, False and "" are falsy)
Truthy(v) == v \notin {"None", "False", ""}

(* ---------------- config.py ---------------- *)

\* class TabPFNConfig: a fresh instance reads every field from the class attributes
TabPFNConfig ==
    [is_initialized    |-> None,
     user_email        |-> None,
     use_server        |-> None,
     user_auth_handler |-> NoHandler,
     inference_handler |-> NoHandler]

\* one call made to a collaborator: its name and the object it is made on
\* (0 for static PromptAgent calls)
Call(fn, on) == [fn |-> fn, on |-> on]

\* the outcome of an operation: the new session, the collaborator calls made,
\* and "ok" or the error raised
Outcome(g, calls, result) == [cfg |-> g, calls |-> calls, result |-> result]

\* answers of the collaborators during one init(use_server=True); an answer
\* that is never asked for is left at its first value
InitAnswers ==
    {in \in [accessible : {"True", "False", "raise"},
             reuse      : {"True", "False", "raise"},
             terms      : {"True", "False"},
             login      : Emails \cup {"raise"},
             greeting   : {"ok", "raise"}] :
        /\ in.accessible # "True" => in.reuse = "True"
        /\ in.reuse # "False" => in.terms = "True"
        /\ in.terms # "True" => in.login = "raise"
        /\ (in.accessible # "True" \/ in.reuse = "raise"
              \/ (in.reuse = "False" /\ in.login = "raise")) => in.greeting = "ok"}

\* init(use_server=False) asks no collaborator
NoAnswers ==
    [accessible |-> "True", reuse |-> "True", terms |-> "True",
     login |-> "raise", greeting |-> "ok"]

\* init, lines 50-57 and 62: greeting messages, then the session is populated
InitGreeting(g, calls, in, id) ==
    LET c1 == Append(calls, Call("retrieve_greeting_messages", id))
    IN  IF in.greeting = "raise"
        THEN Outcome(g, c1, "CollaboratorError")
        ELSE Outcome([g EXCEPT !.use_server        = "True",
                               !.user_auth_handler = id,
                               !.inference_handler = id,
                               !.is_initialized    = "True"],
                     c1 \o <<Call("prompt_retrieved_greeting_messages", 0),
                             Call("InferenceClient", id)>>,
                     "ok")

\* a token step that goes on to the login although the terms were refused
InitTokenSkipTerms(g, calls, in, id) ==
    LET c1 == Append(calls, Call("try_reuse_existing_token", id))
    IN  IF in.reuse = "raise"
        THEN Outcome(g, c1, "CollaboratorError")
        ELSE IF in.reuse = "True"
        THEN InitGreeting(g, Append(c1, Call("prompt_reusing_existing_token", 0)), in, id)
        ELSE LET c3 == c1 \o <<Call("prompt_terms_and_cond", 0),
                               Call("prompt_and_set_token", id)>>
             IN  IF in.login = "raise"
                 THEN Outcome(g, c3, "CollaboratorError")
                 ELSE InitGreeting([g EXCEPT !.user_email = in.login], c3, in, id)

\* init, lines 37-48: reuse of the cached token, or terms and login
InitToken(g, calls, in, id) ==
    LET c1 == Append(calls, Call("try_reuse_existing_token", id))
    IN  IF in.reuse = "raise"
        THEN Outcome(g, c1, "CollaboratorError")
        ELSE IF in.reuse = "True"
        THEN InitGreeting(g, Append(c1, Call("prompt_reusing_existing_token", 0)), in, id)
        ELSE LET c2 == Append(c1, Call("prompt_terms_and_cond", 0))
             IN  IF in.terms = "False"
                 THEN Outcome(g, c2, "RuntimeError_terms")
                 ELSE LET c3 == Append(c2, Call("prompt_and_set_token", id))
                      IN  IF in.login = "raise"
                          THEN Outcome(g, c3, "CollaboratorError")
                          ELSE InitGreeting([g EXCEPT !.user_email = in.login],
                                            c3, in, id)

\* an init that sets is_initialized first
init_eager(g, use_server, in, id) ==
    LET g1 == [g EXCEPT !.is_initialized = "True"]
    IN  IF use_server
        THEN LET c1 == <<Call("prompt_welcome", 0),
                         Call("ServiceClient", id),
                         Call("UserAuthenticationClient", id),
                         Call("is_accessible_connection", id)>>
             IN  IF in.accessible = "raise"
                 THEN Outcome(g1, c1, "CollaboratorError")
                 ELSE IF in.accessible = "False"
                 THEN Outcome(g1, c1, "RuntimeError_inaccessible")
                 ELSE InitToken(g1, c1, in, id)
        ELSE Outcome([g1 EXCEPT !.use_server = "False"], <<>>, "ok")

\* an init that goes on although the connection is not accessible
init_unchecked(g, use_server, in, id) ==
    IF use_server
    THEN LET c1 == <<Call("prompt_welcome", 0),
                     Call("ServiceClient", id),
                     Call("UserAuthenticationClient", id),
                     Call("is_accessible_connection", id)>>
         IN  IF in.accessible = "raise"
             THEN Outcome(g, c1, "CollaboratorError")
             ELSE InitToken(g, c1, in, id)
    ELSE Outcome([g EXCEPT !.use_server = "False", !.is_initialized = "True"],
                 <<>>, "ok")

\* init(use_server): the whole function
init(g, use_server, in, id) ==
    IF use_server
    THEN LET c1 == <<Call("prompt_welcome", 0),
                     Call("ServiceClient", id),
                     Call("UserAuthenticationClient", id),
                     Call("is_accessible_connection", id)>>
         IN  IF in.accessible = "raise"
             THEN Outcome(g, c1, "CollaboratorError")
             ELSE IF in.accessible = "False"
             THEN Outcome(g, c1, "RuntimeError_inaccessible")
             ELSE InitToken(g, c1, in, id)
    ELSE Outcome([g EXCEPT !.use_server = "False", !.is_initialized = "True"],
                 <<>>, "ok")

\* a reset that clears the flags of the existing session object and keeps the rest
reset_in_place(g) ==
    Outcome([g EXCEPT !.is_initialized = None, !.use_server = None],
            <<Call("rmtree", 0)>>, "ok")

\* reset(): g_tabpfn_config is rebound to a fresh TabPFNConfig first (line 68);
\* the use_server test of line 71 then reads the fresh instance.  rmtree is
\* called with ignore_errors=True and raises nothing.
reset(g) ==
    LET fresh == TabPFNConfig
        c1 == IF Truthy(fresh.use_server)
              THEN <<Call("reset_cache", fresh.user_auth_handler)>>
              ELSE <<>>
    IN  IF Truthy(fresh.use_server) /\ fresh.user_auth_handler = NoHandler
        THEN Outcome(fresh, <<>>, "AttributeError")
        ELSE Outcome(fresh, Append(c1, Call("rmtree", 0)), "ok")

(* ---------------- estimator.py ---------------- *)

Models == {"latest_tabpfn_hosted", "other_model"}

\* optimize_metric values of the regressor: the Literal of the signature and
\* one value outside it
RegressorMetrics ==
    {"mse", "rmse", "mae", "r2", "mean", "median", "mode", "exact_match", "None", "bogus"}

\* no estimator object constructed yet
NoEstimator ==
    [kind |-> "none", model |-> "None", optimize_metric |-> "None", fitted_ |-> FALSE]

\* the object TabPFNClassifier(...) / TabPFNRegressor(...) assigns: parameters
\* stored verbatim, no fitted_ attribute
NewEstimator(kind, model, metric) ==
    [kind |-> kind, model |-> model, optimize_metric |-> metric, fitted_ |-> FALSE]

\* the values an operation of an estimator can return
NoFull == [mean |-> 0, median |-> 0, mode |-> 0]

NoRet == [probas |-> <<>>, labels |-> <<>>, full |-> NoFull, value |-> 0]

\* the outcome of an estimator operation
EstOutcome(e, calls, result, warned, ret) ==
    [est |-> e, calls |-> calls, result |-> result, warned |-> warned, ret |-> ret]

\* a constructor that asks for the verification status whenever the session
\* holds an auth handler, whether or not an email is recorded
construct_always_checks(g, old, new, verified) ==
    IF g.user_auth_handler = NoHandler
    THEN EstOutcome(new, <<>>, "ok", FALSE, NoRet)
    ELSE LET c1 == <<Call("get_user_email_verification_status", g.user_auth_handler)>>
         IN  IF verified = "raise"
             THEN EstOutcome(old, c1, "CollaboratorError", FALSE, NoRet)
             ELSE IF verified = "False"
             THEN EstOutcome(old, c1, "RuntimeError_email_not_verified", FALSE, NoRet)
             ELSE EstOutcome(new, c1, "ok", FALSE, NoRet)

\* __init__ of both estimators, lines 184-188 and 320-324: the verification check
\* (verified is the answer of get_user_email_verification_status)
construct(g, old, new, verified) ==
    IF Truthy(g.user_email)
    THEN IF g.user_auth_handler = NoHandler
         THEN EstOutcome(old, <<>>, "AttributeError", FALSE, NoRet)
         ELSE LET c1 == <<Call("get_user_email_verification_status", g.user_auth_handler)>>
              IN  IF verified = "raise"
                  THEN EstOutcome(old, c1, "CollaboratorError", FALSE, NoRet)
                  ELSE IF verified = "False"
                  THEN EstOutcome(old, c1, "RuntimeError_email_not_verified", FALSE, NoRet)
                  ELSE EstOutcome(new, c1, "ok", FALSE, NoRet)
    ELSE EstOutcome(new, <<>>, "ok", FALSE, NoRet)

\* a fit without the is_initialized test of lines 192 / 328
fit_without_init_check(g, e, fitok) ==
    IF Truthy(g.use_server)
    THEN IF g.inference_handler = NoHandler
         THEN EstOutcome(e, <<>>, "AttributeError", e.model # "latest_tabpfn_hosted", NoRet)
         ELSE IF fitok
         THEN EstOutcome([e EXCEPT !.fitted_ = TRUE],
                         <<Call("inference_fit", g.inference_handler)>>, "ok",
                         e.model # "latest_tabpfn_hosted", NoRet)
         ELSE EstOutcome(e, <<Call("inference_fit", g.inference_handler)>>,
                         "CollaboratorError", e.model # "latest_tabpfn_hosted", NoRet)
    ELSE EstOutcome(e, <<>>, "NotImplementedError", FALSE, NoRet)

\* a fit that takes the server branch whenever the session holds an inference handler
fit_by_handler(g, e, fitok) ==
    IF ~Truthy(g.is_initialized)
    THEN EstOutcome(e, <<>>, "RuntimeError_init_not_called", FALSE, NoRet)
    ELSE IF g.inference_handler # NoHandler
    THEN IF fitok
         THEN EstOutcome([e EXCEPT !.fitted_ = TRUE],
                         <<Call("inference_fit", g.inference_handler)>>, "ok",
                         e.model # "latest_tabpfn_hosted", NoRet)
         ELSE EstOutcome(e, <<Call("inference_fit", g.inference_handler)>>,
                         "CollaboratorError", e.model # "latest_tabpfn_hosted", NoRet)
    ELSE EstOutcome(e, <<>>, "NotImplementedError", FALSE, NoRet)

\* a fit that sets fitted_ before the remote call, so a failed call leaves it set
fit_marks_first(g, e, fitok) ==
    IF ~Truthy(g.is_initialized)
    THEN EstOutcome(e, <<>>, "RuntimeError_init_not_called", FALSE, NoRet)
    ELSE IF Truthy(g.use_server)
    THEN IF g.inference_handler = NoHandler
         THEN EstOutcome(e, <<>>, "AttributeError", e.model # "latest_tabpfn_hosted", NoRet)
         ELSE EstOutcome([e EXCEPT !.fitted_ = TRUE],
                         <<Call("inference_fit", g.inference_handler)>>,
                         IF fitok THEN "ok" ELSE "CollaboratorError",
                         e.model # "latest_tabpfn_hosted", NoRet)
    ELSE EstOutcome(e, <<>>, "NotImplementedError", FALSE, NoRet)

\* a fit whose model assertion is not caught
fit_asserting(g, e, fitok) ==
    IF ~Truthy(g.is_initialized)
    THEN EstOutcome(e, <<>>, "RuntimeError_init_not_called", FALSE, NoRet)
    ELSE IF Truthy(g.use_server)
    THEN IF e.model # "latest_tabpfn_hosted"
         THEN EstOutcome(e, <<>>, "AssertionError", FALSE, NoRet)
         ELSE IF g.inference_handler = NoHandler
         THEN EstOutcome(e, <<>>, "AttributeError", FALSE, NoRet)
         ELSE IF fitok
         THEN EstOutcome([e EXCEPT !.fitted_ = TRUE],
                         <<Call("inference_fit", g.inference_handler)>>, "ok", FALSE, NoRet)
         ELSE EstOutcome(e, <<Call("inference_fit", g.inference_handler)>>,
                         "CollaboratorError", FALSE, NoRet)
    ELSE EstOutcome(e, <<>>, "NotImplementedError", FALSE, NoRet)

\* fit(X, y) of both estimators (fitok is whether inference_handler.fit returns)
fit(g, e, fitok) ==
    IF ~Truthy(g.is_initialized)
    THEN EstOutcome(e, <<>>, "RuntimeError_init_not_called", FALSE, NoRet)
    ELSE IF Truthy(g.use_server)
    THEN LET warned == (e.model # "latest_tabpfn_hosted")
         IN  IF g.inference_handler = NoHandler
             THEN EstOutcome(e, <<>>, "AttributeError", warned, NoRet)
             ELSE LET c1 == <<Call("inference_fit", g.inference_handler)>>
                  IN  IF fitok
                      THEN EstOutcome([e EXCEPT !.fitted_ = TRUE], c1, "ok", warned, NoRet)
                      ELSE EstOutcome(e, c1, "CollaboratorError", warned, NoRet)
    ELSE EstOutcome(e, <<>>, "NotImplementedError", FALSE, NoRet)

\* the rows and matrices the "probas" field of a classification response can hold
ProbaRows == [1..NumClasses -> 0..MaxProb]

ProbaMatrices == UNION {[1..n -> ProbaRows] : n \in 1..MaxRows}

\* a regression response: the mapping with keys mean, median, mode
FullPredictions == [mean : 1..MaxValue, median : 1..MaxValue, mode : 1..MaxValue]

\* what inference_handler.predict returns for the caller's X when it returns
\* (the "probas" of a classification and the mean, median, mode of a
\* regression); here two rows with their maxima at positions 1 and 0, and
\* three different regression fields
SampleResponses ==
    {[probas |-> <<<<0, 1>>, <<1, 0>>>>, full |-> [mean |-> 1, median |-> 2, mode |-> 3]]}

\* the answer to one call of inference_handler.predict: it raises, or returns
ClassificationAnswer(raise, r) == [raise |-> raise, probas |-> r.probas]

RegressionAnswer(raise, r) == [raise |-> raise, full |-> r.full]

\* an argmax that returns the last maximal entry on ties
ArgMaxLast(row) ==
    (CHOOSE i \in 1..Len(row) :
        /\ \A j \in 1..Len(row) : row[j] <= row[i]
        /\ \A j \in (i + 1)..Len(row) : row[j] < row[i]) - 1

\* np.argmax of one row: the 0-based index of the first maximal entry
ArgMax(row) ==
    (CHOOSE i \in 1..Len(row) :
        /\ \A j \in 1..Len(row) : row[j] <= row[i]
        /\ \A j \in 1..(i - 1) : row[j] < row[i]) - 1

\* np.argmax(probas, axis=1)
ArgMaxRows(probas) == [r \in 1..Len(probas) |-> ArgMax(probas[r])]

\* a predict_proba that reaches for the inference handler before check_is_fitted
predict_proba_unchecked(g, e, ans) ==
    IF g.inference_handler = NoHandler
    THEN EstOutcome(e, <<>>, "AttributeError", FALSE, NoRet)
    ELSE IF ans.raise
    THEN EstOutcome(e, <<Call("inference_predict", g.inference_handler)>>,
                    "CollaboratorError", FALSE, NoRet)
    ELSE EstOutcome(e, <<Call("inference_predict", g.inference_handler)>>, "ok",
                    FALSE, [NoRet EXCEPT !.probas = ans.probas])

\* TabPFNClassifier.predict_proba, lines 216-220
predict_proba(g, e, ans) ==
    IF ~e.fitted_
    THEN EstOutcome(e, <<>>, "NotFittedError", FALSE, NoRet)
    ELSE IF g.inference_handler = NoHandler
    THEN EstOutcome(e, <<>>, "AttributeError", FALSE, NoRet)
    ELSE LET c1 == <<Call("inference_predict", g.inference_handler)>>
         IN  IF ans.raise
             THEN EstOutcome(e, c1, "CollaboratorError", FALSE, NoRet)
             ELSE EstOutcome(e, c1, "ok", FALSE, [NoRet EXCEPT !.probas = ans.probas])

\* TabPFNClassifier.predict, lines 212-214
classifier_predict(g, e, ans) ==
    LET p == predict_proba(g, e, ans)
    IN  IF p.result # "ok"
        THEN p
        ELSE [p EXCEPT !.ret = [NoRet EXCEPT !.labels = ArgMaxRows(p.ret.probas)]]

\* TabPFNRegressor.predict_full, lines 359-363
predict_full(g, e, ans) ==
    IF ~e.fitted_
    THEN EstOutcome(e, <<>>, "NotFittedError", FALSE, NoRet)
    ELSE IF g.inference_handler = NoHandler
    THEN EstOutcome(e, <<>>, "AttributeError", FALSE, NoRet)
    ELSE LET c1 == <<Call("inference_predict", g.inference_handler)>>
         IN  IF ans.raise
             THEN EstOutcome(e, c1, "CollaboratorError", FALSE, NoRet)
             ELSE EstOutcome(e, c1, "ok", FALSE, [NoRet EXCEPT !.full = ans.full])

\* a predict that falls back to the mean for a metric it does not know
regressor_predict_default(g, e, ans) ==
    LET p == predict_full(g, e, ans)
        m == e.optimize_metric
    IN  IF p.result # "ok"
        THEN p
        ELSE IF m \in {"mae", "median"}
        THEN [p EXCEPT !.ret = [NoRet EXCEPT !.value = p.ret.full.median]]
        ELSE IF m \in {"mode", "exact_match"}
        THEN [p EXCEPT !.ret = [NoRet EXCEPT !.value = p.ret.full.mode]]
        ELSE [p EXCEPT !.ret = [NoRet EXCEPT !.value = p.ret.full.mean]]

\* TabPFNRegressor.predict, lines 348-357
regressor_predict(g, e, ans) ==
    LET p == predict_full(g, e, ans)
        m == e.optimize_metric
    IN  IF p.result # "ok"
        THEN p
        ELSE IF m \in {"mse", "rmse", "r2", "mean", "None"}
        THEN [p EXCEPT !.ret = [NoRet EXCEPT !.value = p.ret.full.mean]]
        ELSE IF m \in {"mae", "median"}
        THEN [p EXCEPT !.ret = [NoRet EXCEPT !.value = p.ret.full.median]]
        ELSE IF m \in {"mode", "exact_match"}
        THEN [p EXCEPT !.ret = [NoRet EXCEPT !.value = p.ret.full.mode]]
        ELSE [p EXCEPT !.result = "ValueError_metric", !.ret = NoRet]

(* ---------------- the state machine ---------------- *)

VARIABLES
    g_tabpfn_config,   \* config.g_tabpfn_config, the session
    est,               \* the estimator object the caller holds
    next_client,       \* identity of the next ServiceClient and its handlers
    fitted_handlers,   \* the InferenceClient objects whose fit was called
    cache_dir,         \* whether CACHE_DIR exists on disk
    response,          \* what the inference service returns for the caller's X
    last               \* the last operation: arguments, collaborator calls, outcome

vars == <<g_tabpfn_config, est, next_client, fitted_handlers, cache_dir, response, last>>

\* the record of an operation; in holds the collaborator answers of an
\* init(use_server=True) and is NoAnswers for every other operation
Last(op, kind, arg, answer, result, calls, warned, ret) ==
    [op |-> op, kind |-> kind, arg |-> arg, answer |-> answer, result |-> result,
     calls |-> calls, warned |-> warned, ret |-> ret, in |-> NoAnswers]

Init ==
    /\ g_tabpfn_config = TabPFNConfig
    /\ est = NoEstimator
    /\ next_client = 1
    /\ fitted_handlers = {}
    /\ cache_dir \in BOOLEAN
    /\ response \in SampleResponses
    /\ last = Last("none", "none", "None", "None", "ok", <<>>, FALSE, NoRet)

\* the calls of a sequence that go to the named collaborator function
CallsTo(calls, fn) == {i \in 1..Len(calls) : calls[i].fn = fn}

\* tabpfn_client.init(use_server=True); a successful login stores the token,
\* which the collaborator may keep under CACHE_DIR
InitServer ==
    /\ next_client <= MaxClients
    /\ \E in \in InitAnswers, stored \in BOOLEAN :
         LET o == init(g_tabpfn_config, TRUE, in, next_client)
         IN  /\ g_tabpfn_config' = o.cfg
             /\ next_client' = next_client + 1
             /\ cache_dir' = (cache_dir \/ (stored /\ o.cfg.user_email = in.login
                                                   /\ CallsTo(o.calls, "prompt_and_set_token") # {}))
             /\ last' = [Last("init", "none", "True", in.login, o.result, o.calls,
                               FALSE, NoRet) EXCEPT !.in = in]
    /\ UNCHANGED <<est, fitted_handlers, response>>

\* tabpfn_client.init(use_server=False)
InitLocal ==
    /\ LET o == init(g_tabpfn_config, FALSE, NoAnswers, next_client)
       IN  /\ g_tabpfn_config' = o.cfg
           /\ last' = Last("init", "none", "False", "None", o.result, o.calls, FALSE, NoRet)
    /\ UNCHANGED <<est, next_client, fitted_handlers, cache_dir, response>>

\* tabpfn_client.reset()
Reset ==
    LET o == reset(g_tabpfn_config)
    IN  /\ g_tabpfn_config' = o.cfg
        /\ cache_dir' = IF CallsTo(o.calls, "rmtree") # {} THEN FALSE ELSE cache_dir
        /\ last' = Last("reset", "none", "None", "None", o.result, o.calls, FALSE, NoRet)
        /\ UNCHANGED <<est, next_client, fitted_handlers, response>>

\* what every operation of an estimator does to the state
EstStep(op, kind, answer, o) ==
    /\ est' = o.est
    /\ fitted_handlers' = fitted_handlers \cup
                             {o.calls[i].on : i \in CallsTo(o.calls, "inference_fit")}
    /\ last' = Last(op, kind, "None", answer, o.result, o.calls, o.warned, o.ret)
    /\ UNCHANGED <<g_tabpfn_config, next_client, cache_dir, response>>

\* the answers get_user_email_verification_status can give for the recorded
\* email; there is no status when no email is recorded
VerificationAnswers ==
    IF Truthy(g_tabpfn_config.user_email) THEN {"True", "False", "raise"} ELSE {"None"}

\* TabPFNClassifier(model=...)
ConstructClassifier ==
    \E model \in Models, verified \in VerificationAnswers :
        EstStep("construct", "classifier", verified,
                construct(g_tabpfn_config, est,
                          NewEstimator("classifier", model, "roc"), verified))

\* TabPFNRegressor(model=..., optimize_metric=...)
ConstructRegressor ==
    \E model \in Models, metric \in RegressorMetrics,
       verified \in VerificationAnswers :
        EstStep("construct", "regressor", verified,
                construct(g_tabpfn_config, est,
                          NewEstimator("regressor", model, metric), verified))

\* TabPFNClassifier.fit(X, y)
FitClassifier ==
    /\ est.kind = "classifier"
    /\ \E fitok \in BOOLEAN :
         EstStep("fit", "classifier", "None", fit(g_tabpfn_config, est, fitok))

\* TabPFNRegressor.fit(X, y)
FitRegressor ==
    /\ est.kind = "regressor"
    /\ \E fitok \in BOOLEAN :
         EstStep("fit", "regressor", "None", fit(g_tabpfn_config, est, fitok))

\* TabPFNClassifier.predict(X)
ClassifierPredict ==
    /\ est.kind = "classifier"
    /\ \E raise \in BOOLEAN :
         EstStep("predict", "classifier", "None",
                 classifier_predict(g_tabpfn_config, est, ClassificationAnswer(raise, response)))

\* TabPFNClassifier.predict_proba(X)
ClassifierPredictProba ==
    /\ est.kind = "classifier"
    /\ \E raise \in BOOLEAN :
         EstStep("predict_proba", "classifier", "None",
                 predict_proba(g_tabpfn_config, est, ClassificationAnswer(raise, response)))

\* TabPFNRegressor.predict(X)
RegressorPredict ==
    /\ est.kind = "regressor"
    /\ \E raise \in BOOLEAN :
         EstStep("predict", "regressor", "None",
                 regressor_predict(g_tabpfn_config, est, RegressionAnswer(raise, response)))

\* TabPFNRegressor.predict_full(X)
RegressorPredictFull ==
    /\ est.kind = "regressor"
    /\ \E raise \in BOOLEAN :
         EstStep("predict_full", "regressor", "None",
                 predict_full(g_tabpfn_config, est, RegressionAnswer(raise, response)))

Next ==
    \/ InitServer
    \/ InitLocal
    \/ Reset
    \/ ConstructClassifier
    \/ ConstructRegressor
    \/ FitClassifier
    \/ FitRegressor
    \/ ClassifierPredict
    \/ ClassifierPredictProba
    \/ RegressorPredict
    \/ RegressorPredictFull

Spec == Init /\ [][Next]_vars

TypeOK ==
    /\ g_tabpfn_config.is_initialized \in {"None", "True"}
    /\ g_tabpfn_config.use_server \in {"None", "True", "False"}
    /\ g_tabpfn_config.user_email \in Emails \cup {"None"}
    /\ g_tabpfn_config.user_auth_handler \in 0..MaxClients
    /\ g_tabpfn_config.inference_handler \in 0..MaxClients
    /\ est.kind \in {"none", "classifier", "regressor"}
    /\ next_client \in 1..(MaxClients + 1)
    /\ fitted_handlers \subseteq 1..MaxClients
    /\ cache_dir \in BOOLEAN
    /\ response.full \in [mean : Nat, median : Nat, mode : Nat]

\* The predictions alone: a fitted estimator of either kind in a session that a
\* server-mode init left, and every response of the inference service within
\* the bounds.
InitPredict ==
    /\ g_tabpfn_config = [is_initialized |-> "True", user_email |-> None,
                          use_server |-> "True", user_auth_handler |-> 1,
                          inference_handler |-> 1]
    /\ next_client = 2
    /\ fitted_handlers = {1}
    /\ cache_dir = FALSE
    /\ \/ /\ est \in {[NewEstimator("classifier", m, "roc") EXCEPT !.fitted_ = TRUE] :
                          m \in Models}
          /\ response \in [probas : ProbaMatrices, full : {NoFull}]
       \/ /\ est \in {[NewEstimator("regressor", "latest_tabpfn_hosted", metric)
                            EXCEPT !.fitted_ = TRUE] : metric \in RegressorMetrics}
          /\ response \in [probas : {<<>>}, full : FullPredictions]
    /\ last = Last("fit", est.kind, "None", "None", "ok", <<Call("inference_fit", 1)>>,
                   est.model # "latest_tabpfn_hosted", NoRet)

NextPredict ==
    \/ ClassifierPredict
    \/ ClassifierPredictProba
    \/ RegressorPredict
    \/ RegressorPredictFull

SpecPredict == InitPredict /\ [][NextPredict]_vars

(* ---------------- properties ---------------- *)

Initialized == Truthy(g_tabpfn_config.is_initialized)

PredictOps == {"predict", "predict_proba", "predict_full"}

InferenceCalls(calls) == CallsTo(calls, "inference_fit") \cup CallsTo(calls, "inference_predict")

\* C1 (as stated): a fit in a session that is not initialized fails with the
\* "init() must be called" error, calls no inference collaborator, and the
\* estimator's fitted flag is unset afterwards.
C1_FitUninitializedLeavesUnset ==
    (last.op = "fit" /\ ~Initialized) =>
        /\ last.result = "RuntimeError_init_not_called"
        /\ InferenceCalls(last.calls) = {}
        /\ ~est.fitted_

\* C1 (amended): a fit in a session that is not initialized fails with the
\* "init() must be called" error, calls no inference collaborator, and leaves
\* the estimator's fitted flag as it was (unset if it was unset, still set on
\* an estimator fitted before a reset).
C1_FitUninitialized ==
    [][(last'.op = "fit" /\ ~Initialized) =>
          /\ last'.result = "RuntimeError_init_not_called"
          /\ InferenceCalls(last'.calls) = {}
          /\ fitted_handlers' = fitted_handlers
          /\ est' = est]_vars

\* C1 witness: a fit refused after reset, on an estimator fitted before the reset
C1_Witness ==
    /\ last.op = "fit"
    /\ last.result = "RuntimeError_init_not_called"
    /\ ~Initialized
    /\ est.fitted_

\* C2: a reset of a session initialized in server mode calls reset_cache exactly
\* once, on the auth handler of that session, then removes the cache directory
\* without error.
C2_ResetInvalidatesCache ==
    [][(last'.op = "reset" /\ Initialized /\ g_tabpfn_config.use_server = "True") =>
          /\ last'.result = "ok"
          /\ last'.calls = <<Call("reset_cache", g_tabpfn_config.user_auth_handler),
                             Call("rmtree", 0)>>
          /\ ~cache_dir']_vars

\* C3: between operations, both handlers are non-null exactly when use_server
\* is true and is_initialized is true.
C3_HandlersIffServerInitialized ==
    (g_tabpfn_config.user_auth_handler # NoHandler
        /\ g_tabpfn_config.inference_handler # NoHandler)
    <=> (g_tabpfn_config.use_server = "True" /\ g_tabpfn_config.is_initialized = "True")

\* C4: predict, predict_proba and predict_full on an estimator that was never
\* fitted fail with the "not fitted" error and call no inference collaborator,
\* in every session state.
C4_PredictUnfitted ==
    (last.op \in PredictOps /\ ~est.fitted_) =>
        /\ last.result = "NotFittedError"
        /\ InferenceCalls(last.calls) = {}

\* C4 witness: an unfitted estimator refused by a session that is initialized in
\* server mode and holds an inference handler
C4_Witness ==
    /\ last.op \in PredictOps
    /\ ~est.fitted_
    /\ last.result = "NotFittedError"
    /\ Initialized
    /\ g_tabpfn_config.inference_handler # NoHandler

\* C5: a predict while the session is not initialized fails with the
\* "not initialized" error.
C5_PredictUninitialized ==
    (last.op \in PredictOps /\ ~Initialized) =>
        last.result = "RuntimeError_init_not_called"

\* C6: constructing an estimator while the session records a user_email whose
\* verification status is false fails with the "email has not been verified"
\* error; with no user_email recorded the status is not queried and the
\* construction succeeds.
C6_ConstructUnverified ==
    last.op = "construct" =>
        /\ (Truthy(g_tabpfn_config.user_email) /\ last.answer = "False")
              => last.result = "RuntimeError_email_not_verified"
        /\ ~Truthy(g_tabpfn_config.user_email)
              => (last.calls = <<>> /\ last.result = "ok")

\* C7: init(use_server=False) calls no collaborator, sets use_server false and
\* is_initialized true, and both handlers are null afterwards.
C7_InitLocal ==
    (last.op = "init" /\ last.arg = "False") =>
        /\ last.calls = <<>>
        /\ last.result = "ok"
        /\ g_tabpfn_config.use_server = "False"
        /\ g_tabpfn_config.is_initialized = "True"
        /\ g_tabpfn_config.user_auth_handler = NoHandler
        /\ g_tabpfn_config.inference_handler = NoHandler

\* C8: after a successful init(use_server=True), on the token-reuse path and on
\* the login path, user_email is set (to the email the login returned, when the
\* login ran), use_server is true and both handlers are non-null.
C8_InitServerPopulates ==
    (last.op = "init" /\ last.arg = "True" /\ last.result = "ok") =>
        /\ Truthy(g_tabpfn_config.user_email)
        /\ CallsTo(last.calls, "prompt_and_set_token") # {}
              => g_tabpfn_config.user_email = last.answer
        /\ g_tabpfn_config.use_server = "True"
        /\ g_tabpfn_config.user_auth_handler # NoHandler
        /\ g_tabpfn_config.inference_handler # NoHandler

\* the five session fields as a fresh TabPFNConfig has them
FreshSession ==
    /\ g_tabpfn_config.is_initialized = "None"
    /\ g_tabpfn_config.user_email = "None"
    /\ g_tabpfn_config.use_server = "None"
    /\ g_tabpfn_config.user_auth_handler = 0
    /\ g_tabpfn_config.inference_handler = 0

\* C9: after reset, from any session state, the five session fields are fresh;
\* the session then stays uninitialized until an init, and every fit in it
\* fails with the not-initialized error.
C9_ResetFresh ==
    [][/\ last'.op = "reset" => (FreshSession' /\ last'.result = "ok")
       /\ (~Initialized /\ last'.op # "init") => ~Initialized'
       /\ (~Initialized /\ last'.op = "fit")
             => (last'.result = "RuntimeError_init_not_called" /\ est' = est)]_vars

\* C9 witness: a fit refused in the session a reset of a server-mode session left
C9_Witness ==
    /\ last.op = "fit"
    /\ last.result = "RuntimeError_init_not_called"
    /\ FreshSession
    /\ next_client > 1
    /\ fitted_handlers # {}

\* C10: a fit in a session initialized with use_server false fails with the
\* "not implemented" error, calls no inference collaborator and leaves the
\* fitted flag unchanged, also when an earlier init(use_server=True) left
\* handlers in the session.
C10_FitLocal ==
    [][(last'.op = "fit" /\ Initialized /\ g_tabpfn_config.use_server = "False") =>
          /\ last'.result = "NotImplementedError"
          /\ InferenceCalls(last'.calls) = {}
          /\ fitted_handlers' = fitted_handlers
          /\ est' = est]_vars

\* C10 witness: a fit refused in local mode while the session still holds the
\* inference handler of an earlier server-mode init
C10_Witness ==
    /\ last.op = "fit"
    /\ last.result = "NotImplementedError"
    /\ g_tabpfn_config.use_server = "False"
    /\ g_tabpfn_config.inference_handler # NoHandler

\* the inference collaborator's predict was called and returned a response
InferenceAnswered ==
    /\ CallsTo(last.calls, "inference_predict") # {}
    /\ last.result # "CollaboratorError"

\* C11: predict of a fitted regressor returns the "mean" field of the inference
\* response for optimize_metric mse, rmse, r2, mean or null, the "median" field
\* for mae or median, the "mode" field for mode or exact_match, and raises the
\* unsupported-metric error, returning no field, for every other value.
C11_RegressorPredictField ==
    (last.op = "predict" /\ last.kind = "regressor" /\ est.fitted_ /\ InferenceAnswered) =>
        /\ est.optimize_metric \in {"mse", "rmse", "r2", "mean", "None"}
              => (last.result = "ok" /\ last.ret.value = response.full.mean)
        /\ est.optimize_metric \in {"mae", "median"}
              => (last.result = "ok" /\ last.ret.value = response.full.median)
        /\ est.optimize_metric \in {"mode", "exact_match"}
              => (last.result = "ok" /\ last.ret.value = response.full.mode)
        /\ est.optimize_metric \notin {"mse", "rmse", "r2", "mean", "None", "mae",
                                       "median", "mode", "exact_match"}
              => (last.result = "ValueError_metric" /\ last.ret = NoRet)

\* C11 witness: a regressor with optimize_metric "mae" returned the median of
\* a response whose mean and mode differ from it
C11_Witness ==
    /\ last.op = "predict"
    /\ last.kind = "regressor"
    /\ est.optimize_metric = "mae"
    /\ last.result = "ok"
    /\ last.ret.value = response.full.median
    /\ response.full.mean # response.full.median
    /\ response.full.mode # response.full.median

\* C12: predict of a fitted classifier returns one label per row of "probas":
\* the 0-based index of the row's maximum, the lowest such index on ties.
C12_ClassifierPredictArgmax ==
    (last.op = "predict" /\ last.kind = "classifier" /\ last.result = "ok") =>
        /\ Len(last.ret.labels) = Len(response.probas)
        /\ \A r \in 1..Len(response.probas) :
              LET row == response.probas[r]
                  l   == last.ret.labels[r]
              IN  /\ l \in 0..(Len(row) - 1)
                  /\ \A j \in 1..Len(row) : row[j] <= row[l + 1]
                  /\ \A j \in 1..l : row[j] < row[l + 1]

\* C12 witness: rows with maxima at positions 1 and 0 gave the labels 1, 0
C12_Witness ==
    /\ last.op = "predict"
    /\ last.kind = "classifier"
    /\ last.result = "ok"
    /\ response.probas = <<<<0, 1>>, <<1, 0>>>>
    /\ last.ret.labels = <<1, 0>>

\* a session initialized in server mode
ServerMode == Initialized /\ g_tabpfn_config.use_server = "True"

\* C13: in an initialized server-mode session fit calls the inference
\* collaborator's fit exactly once; when the call returns the estimator is the
\* same object marked fitted, when it fails the failure reaches the caller and
\* the estimator, its fitted flag included, is as before.
C13_FitServer ==
    [][(last'.op = "fit" /\ ServerMode) =>
          /\ last'.calls = <<Call("inference_fit", g_tabpfn_config.inference_handler)>>
          /\ g_tabpfn_config.inference_handler # NoHandler
          /\ last'.result \in {"ok", "CollaboratorError"}
          /\ last'.result = "ok" => est' = [est EXCEPT !.fitted_ = TRUE]
          /\ last'.result = "CollaboratorError" => est' = est]_vars

\* C13 witness: the remote fit failed and the estimator is still unfitted
C13_Witness ==
    /\ last.op = "fit"
    /\ ServerMode
    /\ last.result = "CollaboratorError"
    /\ Cardinality(CallsTo(last.calls, "inference_fit")) = 1
    /\ ~est.fitted_

\* the steps of init(use_server=True) in the calls of the last operation
Called(fn) == CallsTo(last.calls, fn) # {}

\* C14: init(use_server=True) sets is_initialized only after the connectivity
\* check, the token reuse or terms and login, the greeting retrieval and the
\* handler population have succeeded; a failed init leaves is_initialized as it
\* was, so not true on a session not yet initialized.
C14_InitializedLast ==
    [][(last'.op = "init" /\ last'.arg = "True") =>
          /\ last'.result # "ok" => g_tabpfn_config'.is_initialized = g_tabpfn_config.is_initialized
          /\ last'.result = "ok" =>
                /\ g_tabpfn_config'.is_initialized = "True"
                /\ last'.in.accessible = "True"
                /\ \/ last'.in.reuse = "True"
                   \/ (last'.in.reuse = "False" /\ last'.in.terms = "True"
                         /\ last'.in.login \in Emails)
                /\ last'.in.greeting = "ok"
                /\ Called("is_accessible_connection")'
                /\ Called("try_reuse_existing_token")'
                /\ Called("retrieve_greeting_messages")'
                /\ g_tabpfn_config'.user_auth_handler # NoHandler
                /\ g_tabpfn_config'.inference_handler # NoHandler]_vars

\* C14 witness: an init that failed at its last remote step, the greeting
\* retrieval after a login, on a session that is still not initialized
C14_Witness ==
    /\ last.op = "init"
    /\ last.arg = "True"
    /\ last.result = "CollaboratorError"
    /\ Called("prompt_and_set_token")
    /\ Called("retrieve_greeting_messages")
    /\ ~Initialized

\* C15: when no cached token is reused and the terms are refused, init fails
\* with the terms error, the login prompt is not invoked and no session field
\* changes; when a cached token is reused, neither the terms prompt nor the
\* login prompt is invoked.
C15_TermsRefused ==
    [][(last'.op = "init" /\ last'.arg = "True" /\ last'.in.accessible = "True") =>
          /\ (last'.in.reuse = "False" /\ last'.in.terms = "False") =>
                /\ last'.result = "RuntimeError_terms"
                /\ Called("prompt_terms_and_cond")'
                /\ ~Called("prompt_and_set_token")'
                /\ g_tabpfn_config' = g_tabpfn_config
          /\ last'.in.reuse = "True" =>
                /\ ~Called("prompt_terms_and_cond")'
                /\ ~Called("prompt_and_set_token")']_vars

\* C15 witness: the terms were refused in a session an earlier init had set up
C15_Witness ==
    /\ last.op = "init"
    /\ last.result = "RuntimeError_terms"
    /\ last.in.terms = "False"
    /\ ServerMode

\* C16: when the connectivity check reports the endpoint unreachable, init
\* makes that check once, fails with the "inaccessible" error, makes no token
\* lookup, terms prompt, login or greeting retrieval, and changes no session
\* field.
C16_Inaccessible ==
    [][(last'.op = "init" /\ last'.arg = "True" /\ last'.in.accessible = "False") =>
          /\ last'.result = "RuntimeError_inaccessible"
          /\ Cardinality(CallsTo(last'.calls, "is_accessible_connection")) = 1
          /\ ~Called("try_reuse_existing_token")'
          /\ ~Called("prompt_terms_and_cond")'
          /\ ~Called("prompt_and_set_token")'
          /\ ~Called("retrieve_greeting_messages")'
          /\ g_tabpfn_config' = g_tabpfn_config]_vars

\* C16 witness: the endpoint was unreachable for a fresh session
C16_Witness ==
    /\ last.op = "init"
    /\ last.in.accessible = "False"
    /\ last.result = "RuntimeError_inaccessible"
    /\ FreshSession

\* C17: in an initialized server-mode session, fit of an estimator whose model
\* is not "latest_tabpfn_hosted" prints the warning and goes on: one call of
\* the inference collaborator's fit, and when it returns the estimator is
\* marked fitted and returned; the sentinel model differs only in the warning.
C17_ModelWarning ==
    [][(last'.op = "fit" /\ ServerMode) =>
          /\ last'.warned <=> (est.model # "latest_tabpfn_hosted")
          /\ last'.result # "AssertionError"
          /\ Cardinality(CallsTo(last'.calls, "inference_fit")) = 1
          /\ last'.result = "ok" => (est'.fitted_ /\ est'.model = est.model
                                        /\ est'.kind = est.kind)]_vars

\* C17 witness: an estimator of another model was warned about and fitted
C17_Witness ==
    /\ last.op = "fit"
    /\ last.warned
    /\ last.result = "ok"
    /\ est.model = "other_model"
    /\ est.fitted_
    /\ Cardinality(CallsTo(last.calls, "inference_fit")) = 1

\* C18 (as stated): constructing an estimator calls no remote collaborator, in
\* every reachable session state.
C18_ConstructNoCall ==
    last.op = "construct" => last.calls = <<>>

\* C18 (amended): constructing an estimator never calls the inference
\* collaborator; its only call is one get_user_email_verification_status on
\* the session's auth handler, made exactly when the session records a
\* user_email and holds an auth handler.
C18_ConstructOnlyVerification ==
    last.op = "construct" =>
        /\ InferenceCalls(last.calls) = {}
        /\ (Truthy(g_tabpfn_config.user_email)
               /\ g_tabpfn_config.user_auth_handler # NoHandler)
              => last.calls = <<Call("get_user_email_verification_status",
                                     g_tabpfn_config.user_auth_handler)>>
        /\ ~(Truthy(g_tabpfn_config.user_email)
               /\ g_tabpfn_config.user_auth_handler # NoHandler)
              => last.calls = <<>>

\* C18 witness: a construction that asked the auth handler and succeeded
C18_Witness ==
    /\ last.op = "construct"
    /\ last.result = "ok"
    /\ Called("get_user_email_verification_status")
    /\ est.kind = "regressor"

\* C19: between operations a recorded user_email comes with an auth handler,
\* so the verification check of a constructor never reads a missing handler.
C19_EmailImpliesHandler ==
    /\ Truthy(g_tabpfn_config.user_email) => g_tabpfn_config.user_auth_handler # NoHandler
    /\ last.op = "construct" => last.result # "AttributeError"

\* C20: whenever a predict reaches the predict of an inference handler, the fit
\* of that same handler was called before.
C20_PredictOnFittedHandler ==
    last.op \in PredictOps =>
        \A i \in CallsTo(last.calls, "inference_predict") :
            last.calls[i].on \in fitted_handlers

\* C21: a predict calls no inference collaborator while the session's
\* use_server flag is false, in particular after init(use_server=True), fit,
\* init(use_server=False).
C21_PredictLocalNoCall ==
    (last.op \in PredictOps /\ g_tabpfn_config.use_server = "False") =>
        InferenceCalls(last.calls) = {}

====
